---- MODULE Spec2Model ----
(***************************************************************************)
(* Verification model of the Stylus contracts of the repository:           *)
(*   LoanComplianceLedger  (src/smart contract/Registro_de_usuario.rs)     *)
(*   BankRegistry          (src/smart contract/Registro_de_bancos.rs)      *)
(* Every external method is a pure operator from the contract storage, the *)
(* transaction context (msg::sender, block::timestamp) and the arguments   *)
(* to a result and the new storage; one action per method applies it.      *)
(* SpecLedger explores the loan lifecycle, SpecCompliance the five-year    *)
(* window of get_compliance_percentage, SpecRegistry the BankRegistry.     *)
(*   ScoreCalculator       (src/smart contract/Calculadora_de_score .rs)   *)
(* reads the attestations through the IAttestations interface; the         *)
(* AttestationLedger behind it has no source in the repository and is      *)
(* modelled from its specification. SpecScore explores the two together    *)
(* with the BankRegistry that gates the submissions.                       *)
(***************************************************************************)
EXTENDS Integers, Sequences, FiniteSets, TLC

\* ------------------------------------------------------------------ bounds
\* Total number of loan records over all users, in SpecLedger.
MaxLoans == 2
\* Total number of loan records over all users, in SpecCompliance.
MaxPeriodLoans == 3

\* Account addresses (users, banks and owners are all plain addresses).
Address == {"a1", "a2"}
\* The addresses that call, own and are listed in the BankRegistry.
Accounts == Address \cup {"a3"}
\* Loan amounts passed to add_loan_record.
Amounts == {1, 2}
\* The amounts each address lends in SpecLedger and in SpecCompliance.
LedgerLends == [a \in Address |-> IF a = "a1" THEN {1} ELSE {2}]
PeriodLends == [a \in Address |-> {1}]
\* Block timestamps of SpecLedger.
LedgerTimes == {0, 1}

\* ------------------------------------------------------------- constants
FIVE_YEARS_IN_SECONDS == 157680000

\* A U256 argument used as a list index is kept as two parts: lo, the part
\* that fits the target's usize, and hi, the bits above it (the value is
\* hi * (usize::MAX + 1) + lo).
U256Index ==
    {[hi |-> 0, lo |-> l] : l \in 0..MaxPeriodLoans} \cup {[hi |-> 1, lo |-> 0]}
\* The indices passed to mark_loan_as_paid in SpecLedger (every position,
\* the first one past the end, and usize::MAX + 1) and in SpecCompliance.
LedgerIndex ==
    {[hi |-> 0, lo |-> l] : l \in 0..MaxLoans} \cup {[hi |-> 1, lo |-> 0]}
PeriodIndex == {[hi |-> 0, lo |-> l] : l \in 0..MaxPeriodLoans - 1}
NoIndex == [hi |-> 0, lo |-> 0]
\* Block timestamps of SpecCompliance: at the last one a loan issued at 1 is
\* exactly five years old, and one issued at 0 five years and a second.
PeriodTimes == {0, 1, FIVE_YEARS_IN_SECONDS + 1}

VARIABLES
    user_loans,    \* LoanComplianceLedger.user_loans: Address -> Vec<LoanRecord>
    now,           \* block::timestamp()
    owner,         \* BankRegistry.owner
    trusted_banks, \* BankRegistry.trusted_banks: Address -> bool
    last,          \* the last call: method, msg::sender, arguments, result
    last_set,      \* history: per address, the value of the last successful
                   \* add_bank ("true") or remove_bank ("false"), or "never"
    former_owners, \* history: the addresses that have handed the ownership
                   \* over to another address
    attestations,  \* AttestationLedger.attestations: Address -> Vec<Attestation>
    attestations_contract \* ScoreCalculator.attestations_contract

vars == <<user_loans, now, owner, trusted_banks, last, last_set, former_owners,
          attestations, attestations_contract>>
score_vars == <<attestations, attestations_contract>>
ledger_vars == <<user_loans, now>>
registry_vars == <<owner, trusted_banks, last_set, former_owners>>

\* ------------------------------------------------- LoanComplianceLedger

\* U256::to::<usize>(): the value when it fits, a panic otherwise.
to_usize(x) ==
    IF x.hi = 0 THEN [ok |-> TRUE, val |-> x.lo] ELSE [ok |-> FALSE, val |-> 0]

\* U256::saturating_sub
saturating_sub(a, b) == IF b > a THEN 0 ELSE a - b

\* Mutant: the new record is put in front of the list.
add_loan_record_front(ul, sender, ts, user_address, loan_amount) ==
    LET new_loan == [provider        |-> sender,
                     timestamp_issued |-> ts,
                     loan_amount      |-> loan_amount,
                     is_paid          |-> FALSE,
                     timestamp_paid   |-> 0]
    IN  [ret |-> "Ok",
         user_loans |-> [ul EXCEPT ![user_address] = <<new_loan>> \o @]]

\* Mutant: timestamp_paid starts at the time of issue.
add_loan_record_stamped(ul, sender, ts, user_address, loan_amount) ==
    LET new_loan == [provider        |-> sender,
                     timestamp_issued |-> ts,
                     loan_amount      |-> loan_amount,
                     is_paid          |-> FALSE,
                     timestamp_paid   |-> ts]
    IN  [ret |-> "Ok",
         user_loans |-> [ul EXCEPT ![user_address] = Append(@, new_loan)]]

add_loan_record(ul, sender, ts, user_address, loan_amount) ==
    LET provider_address == sender
        new_loan == [provider        |-> provider_address,
                     timestamp_issued |-> ts,
                     loan_amount      |-> loan_amount,
                     is_paid          |-> FALSE,
                     timestamp_paid   |-> 0]
        loan_list == Append(ul[user_address], new_loan)
    IN  [ret |-> "Ok", user_loans |-> [ul EXCEPT ![user_address] = loan_list]]

\* Mutant: the provider guard is missing.
mark_loan_as_paid_any_caller(ul, sender, ts, user_address, loan_index) ==
    LET loan_list == ul[user_address]
        conv == to_usize(loan_index)
        index == conv.val
    IN  IF ~conv.ok
        THEN [ret |-> "PANIC", user_loans |-> ul]
        ELSE IF index < Len(loan_list)
        THEN LET loan == loan_list[index + 1]
             IN  IF loan.is_paid
                 THEN [ret |-> "LOAN_ALREADY_PAID", user_loans |-> ul]
                 ELSE [ret |-> "Ok",
                       user_loans |->
                           [ul EXCEPT ![user_address][index + 1] =
                               [loan EXCEPT !.is_paid = TRUE,
                                            !.timestamp_paid = ts]]]
        ELSE [ret |-> "LOAN_INDEX_OUT_OF_BOUNDS", user_loans |-> ul]

\* Mutant: the already-paid check is missing.
mark_loan_as_paid_again(ul, sender, ts, user_address, loan_index) ==
    LET loan_list == ul[user_address]
        conv == to_usize(loan_index)
        index == conv.val
    IN  IF ~conv.ok
        THEN [ret |-> "PANIC", user_loans |-> ul]
        ELSE IF index < Len(loan_list)
        THEN LET loan == loan_list[index + 1]
             IN  IF loan.provider # sender
                 THEN [ret |-> "NOT_ORIGINAL_PROVIDER", user_loans |-> ul]
                 ELSE [ret |-> "Ok",
                       user_loans |->
                           [ul EXCEPT ![user_address][index + 1] =
                               [loan EXCEPT !.is_paid = TRUE,
                                            !.timestamp_paid = ts]]]
        ELSE [ret |-> "LOAN_INDEX_OUT_OF_BOUNDS", user_loans |-> ul]

\* Mutant: the time of payment is also written over timestamp_issued.
mark_loan_as_paid_restamps(ul, sender, ts, user_address, loan_index) ==
    LET loan_list == ul[user_address]
        conv == to_usize(loan_index)
        index == conv.val
    IN  IF ~conv.ok
        THEN [ret |-> "PANIC", user_loans |-> ul]
        ELSE IF index < Len(loan_list)
        THEN LET loan == loan_list[index + 1]
             IN  IF loan.provider # sender
                 THEN [ret |-> "NOT_ORIGINAL_PROVIDER", user_loans |-> ul]
                 ELSE IF loan.is_paid
                 THEN [ret |-> "LOAN_ALREADY_PAID", user_loans |-> ul]
                 ELSE [ret |-> "Ok",
                       user_loans |->
                           [ul EXCEPT ![user_address][index + 1] =
                               [loan EXCEPT !.is_paid = TRUE,
                                            !.timestamp_issued = ts,
                                            !.timestamp_paid = ts]]]
        ELSE [ret |-> "LOAN_INDEX_OUT_OF_BOUNDS", user_loans |-> ul]

mark_loan_as_paid(ul, sender, ts, user_address, loan_index) ==
    LET bank_address == sender
        loan_list == ul[user_address]
        conv == to_usize(loan_index)
        index == conv.val
    IN  IF ~conv.ok
        THEN [ret |-> "PANIC", user_loans |-> ul]
        ELSE IF index < Len(loan_list)
        THEN LET loan == loan_list[index + 1]
             IN  IF loan.provider # bank_address
                 THEN [ret |-> "NOT_ORIGINAL_PROVIDER", user_loans |-> ul]
                 ELSE IF loan.is_paid
                 THEN [ret |-> "LOAN_ALREADY_PAID", user_loans |-> ul]
                 ELSE [ret |-> "Ok",
                       user_loans |->
                           [ul EXCEPT ![user_address][index + 1] =
                               [loan EXCEPT !.is_paid = TRUE,
                                            !.timestamp_paid = ts]]]
        ELSE [ret |-> "LOAN_INDEX_OUT_OF_BOUNDS", user_loans |-> ul]

get_loan_history(ul, user_address) == ul[user_address]

\* Mutant: the filter compares with > for >=.
in_period_strict(loan, five_years_ago) == loan.timestamp_issued > five_years_ago

\* The 5-year filter of the loop body.
in_period(loan, five_years_ago) == loan.timestamp_issued >= five_years_ago

\* Mutant: the paid counter is incremented outside the filter.
RECURSIVE count_loans_paid_anywhere(_, _, _)
count_loans_paid_anywhere(loan_list, five_years_ago, n) ==
    IF n = 0
    THEN [total_loans_in_period |-> 0, paid_loans_in_period |-> 0]
    ELSE LET c == count_loans_paid_anywhere(loan_list, five_years_ago, n - 1)
             loan == loan_list[n]
         IN  [total_loans_in_period |->
                  IF loan.timestamp_issued >= five_years_ago
                  THEN c.total_loans_in_period + 1
                  ELSE c.total_loans_in_period,
              paid_loans_in_period  |->
                  IF loan.is_paid THEN c.paid_loans_in_period + 1
                                  ELSE c.paid_loans_in_period]

\* The loop over loan_list: the two counters after the first n records.
RECURSIVE count_loans(_, _, _)
count_loans(loan_list, five_years_ago, n) ==
    IF n = 0
    THEN [total_loans_in_period |-> 0, paid_loans_in_period |-> 0]
    ELSE LET c == count_loans(loan_list, five_years_ago, n - 1)
             loan == loan_list[n]
         IN  IF in_period(loan, five_years_ago)
             THEN [total_loans_in_period |-> c.total_loans_in_period + 1,
                   paid_loans_in_period  |->
                       IF loan.is_paid THEN c.paid_loans_in_period + 1
                                       ELSE c.paid_loans_in_period]
             ELSE c

\* Mutant: the division is done before the multiplication.
percentage_divide_first(paid_loans_in_period, total_loans_in_period) ==
    IF total_loans_in_period = 0
    THEN 100
    ELSE (paid_loans_in_period \div total_loans_in_period) * 100

\* Mutant: the share of the unpaid loans is returned.
percentage_of_unpaid(paid_loans_in_period, total_loans_in_period) ==
    IF total_loans_in_period = 0
    THEN 100
    ELSE ((total_loans_in_period - paid_loans_in_period) * 100)
             \div total_loans_in_period

\* Step 4: the percentage from the two counters.
percentage_of(paid_loans_in_period, total_loans_in_period) ==
    IF total_loans_in_period = 0
    THEN 100
    ELSE (paid_loans_in_period * 100) \div total_loans_in_period

get_compliance_percentage(ul, ts, user_address) ==
    LET five_years_ago == saturating_sub(ts, FIVE_YEARS_IN_SECONDS)
        loan_list == ul[user_address]
        c == count_loans(loan_list, five_years_ago, Len(loan_list))
    IN  percentage_of(c.paid_loans_in_period, c.total_loans_in_period)

\* --------------------------------------------------------- BankRegistry

\* self.owner.guard(): passes when msg::sender is the owner.
guard(owner_, sender) == sender = owner_

\* Mutant: the owner guard is missing.
add_bank_unguarded(owner_, tb, sender, bank_address) ==
    [ret |-> "Ok", owner |-> owner_,
     trusted_banks |-> [tb EXCEPT ![bank_address] = TRUE]]

add_bank(owner_, tb, sender, bank_address) ==
    IF ~guard(owner_, sender)
    THEN [ret |-> "UNAUTHORIZED", owner |-> owner_, trusted_banks |-> tb]
    ELSE [ret |-> "Ok", owner |-> owner_,
          trusted_banks |-> [tb EXCEPT ![bank_address] = TRUE]]

\* Mutant: the entry is deleted for the caller, not for the bank given.
remove_bank_of_caller(owner_, tb, sender, bank_address) ==
    IF ~guard(owner_, sender)
    THEN [ret |-> "UNAUTHORIZED", owner |-> owner_, trusted_banks |-> tb]
    ELSE [ret |-> "Ok", owner |-> owner_,
          trusted_banks |-> [tb EXCEPT ![sender] = FALSE]]

remove_bank(owner_, tb, sender, bank_address) ==
    IF ~guard(owner_, sender)
    THEN [ret |-> "UNAUTHORIZED", owner |-> owner_, trusted_banks |-> tb]
    ELSE [ret |-> "Ok", owner |-> owner_,
          trusted_banks |-> [tb EXCEPT ![bank_address] = FALSE]]

\* Mutant: every address is reported as trusted.
is_trusted_bank_always(tb, bank_address) == [ret |-> "Ok", val |-> TRUE]

is_trusted_bank(tb, bank_address) == [ret |-> "Ok", val |-> tb[bank_address]]

\* Mutant: the owner guard is missing.
transfer_ownership_unguarded(owner_, tb, sender, new_owner) ==
    [ret |-> "Ok", owner |-> new_owner, trusted_banks |-> tb]

transfer_ownership(owner_, tb, sender, new_owner) ==
    IF ~guard(owner_, sender)
    THEN [ret |-> "UNAUTHORIZED", owner |-> owner_, trusted_banks |-> tb]
    ELSE [ret |-> "Ok", owner |-> new_owner, trusted_banks |-> tb]

\* ---------------------------------------------------------------- actions

RECURSIVE SumLen(_, _)
SumLen(ul, S) ==
    IF S = {} THEN 0
    ELSE LET a == CHOOSE x \in S : TRUE IN Len(ul[a]) + SumLen(ul, S \ {a})

TotalLoans == SumLen(user_loans, Address)

\* The record kept of the last call.
Call(op, sender, user, index, ret) ==
    [op |-> op, sender |-> sender, user |-> user, index |-> index, ret |-> ret]

\* The storage after deployment: empty maps; the owner is the address the
\* registry was deployed for, one of owners.
Init(owners) ==
    /\ user_loans = [a \in Address |-> <<>>]
    /\ now = 0
    /\ owner \in owners
    /\ trusted_banks = [a \in Accounts |-> FALSE]
    /\ last = Call("new", "none", "none", NoIndex, "Ok")
    /\ last_set = [a \in Accounts |-> "never"]
    /\ former_owners = {}
    /\ attestations = [a \in Address |-> <<>>]
    /\ attestations_contract = "ledger"

AddLoanRecord(senders, users, lends, bound) ==
    \E sender \in senders, user \in users : \E amount \in lends[sender] :
        /\ TotalLoans < bound
        /\ LET r == add_loan_record(user_loans, sender, now, user, amount)
           IN  /\ user_loans' = r.user_loans
               /\ last' = Call("add_loan_record", sender, user, NoIndex, r.ret)
        /\ UNCHANGED <<now, registry_vars, score_vars>>

MarkLoanAsPaid(senders, users, indices) ==
    \E sender \in senders, user \in users, idx \in indices :
        /\ LET r == mark_loan_as_paid(user_loans, sender, now, user, idx)
           IN  /\ user_loans' = r.user_loans
               /\ last' = Call("mark_loan_as_paid", sender, user, idx, r.ret)
        /\ UNCHANGED <<now, registry_vars, score_vars>>

GetCompliancePercentage(users) ==
    \E user \in users :
        /\ last' = Call("get_compliance_percentage", "none", user, NoIndex,
                        get_compliance_percentage(user_loans, now, user))
        /\ UNCHANGED <<user_loans, now, registry_vars, score_vars>>

\* The block timestamp advances between transactions.
Tick(times) ==
    \E t \in times :
        /\ t > now
        /\ now' = t
        /\ UNCHANGED <<user_loans, last, registry_vars, score_vars>>

\* SpecLedger: every address reports and repays loans of every address.
LedgerAdd == AddLoanRecord(Address, Address, LedgerLends, MaxLoans)
LedgerMark == MarkLoanAsPaid(Address, Address, LedgerIndex)
LedgerGet == GetCompliancePercentage(Address)
LedgerTick == Tick(LedgerTimes)
LedgerNext == LedgerAdd \/ LedgerMark \/ LedgerGet \/ LedgerTick

SpecLedger == Init({"a1"}) /\ [][LedgerNext]_vars

\* SpecCompliance: one bank's loans to every user over the five-year window.
PeriodAdd == AddLoanRecord({"a1"}, Address, PeriodLends, MaxPeriodLoans)
PeriodMark == MarkLoanAsPaid({"a1"}, Address, PeriodIndex)
PeriodGet == GetCompliancePercentage(Address)
PeriodTick == Tick(PeriodTimes)
ComplianceNext == PeriodAdd \/ PeriodMark \/ PeriodGet \/ PeriodTick

SpecCompliance == Init({"a1"}) /\ [][ComplianceNext]_vars

\* BankRegistry
AddBankBy(senders, banks) ==
    \E sender \in senders, bank \in banks :
        LET r == add_bank(owner, trusted_banks, sender, bank)
        IN  /\ owner' = r.owner
            /\ trusted_banks' = r.trusted_banks
            /\ last' = Call("add_bank", sender, bank, NoIndex, r.ret)
            /\ last_set' = IF r.ret = "Ok"
                           THEN [last_set EXCEPT ![bank] = "true"]
                           ELSE last_set
            /\ UNCHANGED <<former_owners, ledger_vars, score_vars>>

RemoveBankBy(senders, banks) ==
    \E sender \in senders, bank \in banks :
        LET r == remove_bank(owner, trusted_banks, sender, bank)
        IN  /\ owner' = r.owner
            /\ trusted_banks' = r.trusted_banks
            /\ last' = Call("remove_bank", sender, bank, NoIndex, r.ret)
            /\ last_set' = IF r.ret = "Ok"
                           THEN [last_set EXCEPT ![bank] = "false"]
                           ELSE last_set
            /\ UNCHANGED <<former_owners, ledger_vars, score_vars>>

AddBank == AddBankBy(Accounts, Accounts)
RemoveBank == RemoveBankBy(Accounts, Accounts)

IsTrustedBank ==
    \E bank \in Accounts :
        LET r == is_trusted_bank(trusted_banks, bank)
        IN  /\ last' = Call("is_trusted_bank", "none", bank, NoIndex,
                            IF r.ret = "Ok" THEN r.val ELSE r.ret)
            /\ UNCHANGED <<registry_vars, ledger_vars, score_vars>>

TransferOwnership ==
    \E sender \in Accounts, new_owner \in Accounts :
        LET r == transfer_ownership(owner, trusted_banks, sender, new_owner)
        IN  /\ owner' = r.owner
            /\ trusted_banks' = r.trusted_banks
            /\ last' = Call("transfer_ownership", sender, new_owner, NoIndex, r.ret)
            /\ former_owners' = IF r.ret = "Ok" /\ new_owner # sender
                                THEN former_owners \cup {sender}
                                ELSE former_owners
            /\ UNCHANGED <<last_set, ledger_vars, score_vars>>

RegistryNext == AddBank \/ RemoveBank \/ IsTrustedBank \/ TransferOwnership

SpecRegistry == Init(Accounts) /\ [][RegistryNext]_vars

\* ------------------------------------- AttestationLedger, ScoreCalculator

\* U256 is scaled to a word of WordBits bits, the widest whose products with
\* precision_factor stay inside the integers of the model checker.
WordBits == 16
U256Modulus == 2 ^ WordBits
U256Max == U256Modulus - 1
\* Total number of attestations over all users, in SpecScore.
MaxAttestations == 2

precision_factor == 100

\* The data_type labels: the three of the rule table and one outside it.
DataTypes == {"INGRESO_ALTO", "NIVEL_DEUDA", "TASA_AHORRO_ALTA", "OTRO"}
\* The <<data_type, value>> pairs each bank submits in SpecScore.
Reports ==
    [a \in Address |->
        IF a = "a1"
        THEN {<<"INGRESO_ALTO", 100>>, <<"NIVEL_DEUDA", 50>>}
        ELSE {<<"INGRESO_ALTO", U256Max>>, <<"TASA_AHORRO_ALTA", 20>>}]
\* The ppa_factor arguments of calculate_score.
Factors == {0, 60, 100}
\* The addresses attestations_contract can be set to: the AttestationLedger,
\* another contract with the IAttestations interface, and an address with
\* no contract behind it.
LedgerAddress == {"ledger", "other", "none"}
\* What the other contract returns for every user; its second attestation
\* has a data_type outside the rule table.
OtherAttestations ==
    <<[bank_address |-> "a3", timestamp |-> 0,
       data_type |-> "INGRESO_ALTO", value |-> 20],
      [bank_address |-> "a3", timestamp |-> 0,
       data_type |-> "OTRO", value |-> 50]>>

\* U256 `+` and `*` (ruint): the result modulo the word size.
wrapping_add(a, b) == (a + b) % U256Modulus
wrapping_mul(a, b) == (a * b) % U256Modulus

\* AttestationLedger.submit: gated by the registry's is_trusted_bank of the
\* caller; appends the attestation to the user's list.
submit(tb, att, sender, ts, user, data_type, value) ==
    IF ~is_trusted_bank(tb, sender).val
    THEN [ret |-> "NOT_TRUSTED", attestations |-> att]
    ELSE [ret |-> "Ok",
          attestations |->
              [att EXCEPT ![user] =
                  Append(@, [bank_address |-> sender,
                             timestamp    |-> ts,
                             data_type    |-> data_type,
                             value        |-> value])]]

\* AttestationLedger.get_attestations: the user's list, in insertion order.
get_attestations(att, user) == [ret |-> "Ok", val |-> att[user]]

\* IAttestations::new(address).get_attestations(user): the call to whatever
\* is at the address; a call to an address without the contract fails.
call_get_attestations(contract, att, user) ==
    IF contract = "ledger" THEN get_attestations(att, user)
    ELSE IF contract = "other" THEN [ret |-> "Ok", val |-> OtherAttestations]
    ELSE [ret |-> "CALL_FAILED", val |-> <<>>]

\* The body of the loop of calculate_score for one attestation.
score_step(score, a) ==
    IF a.data_type = "INGRESO_ALTO" THEN wrapping_add(score, a.value)
    ELSE IF a.data_type = "NIVEL_DEUDA"
         THEN IF score >= a.value THEN score - a.value ELSE 0
    ELSE IF a.data_type = "TASA_AHORRO_ALTA" THEN wrapping_add(score, a.value)
    ELSE score

\* score_bruto after the first n attestations of the list.
RECURSIVE score_bruto(_, _)
score_bruto(atts, n) ==
    IF n = 0 THEN 0 ELSE score_step(score_bruto(atts, n - 1), atts[n])

\* Mutant: the attestations of banks that are no longer trusted are left out.
calculate_score_trusted_only(contract, att, user_address, ppa_factor) ==
    LET fetched == call_get_attestations(contract, att, user_address)
    IN  IF fetched.ret # "Ok"
        THEN [ret |-> fetched.ret, val |-> 0]
        ELSE LET kept == SelectSeq(fetched.val,
                                   LAMBDA a : trusted_banks[a.bank_address])
                 raw == score_bruto(kept, Len(kept))
             IN  IF ppa_factor = 0
                 THEN [ret |-> "Ok", val |-> 0]
                 ELSE [ret |-> "Ok",
                       val |-> wrapping_mul(raw, precision_factor) \div ppa_factor]

calculate_score(contract, att, user_address, ppa_factor) ==
    LET fetched == call_get_attestations(contract, att, user_address)
    IN  IF fetched.ret # "Ok"
        THEN [ret |-> fetched.ret, val |-> 0]
        ELSE LET raw == score_bruto(fetched.val, Len(fetched.val))
             IN  IF ppa_factor = 0
                 THEN [ret |-> "Ok", val |-> 0]
                 ELSE [ret |-> "Ok",
                       val |-> wrapping_mul(raw, precision_factor) \div ppa_factor]

\* Mutant: only the owner of the registry may set the address.
set_attestations_address_guarded(contract, sender, new_address) ==
    IF sender = owner
    THEN [ret |-> "Ok", attestations_contract |-> new_address]
    ELSE [ret |-> "UNAUTHORIZED", attestations_contract |-> contract]

set_attestations_address(contract, sender, new_address) ==
    [ret |-> "Ok", attestations_contract |-> new_address]

TotalAttestations == SumLen(attestations, Address)

\* The record of a call of the AttestationLedger or the ScoreCalculator:
\* arg is the argument besides the user, val the value returned.
ScoreCall(op, sender, user, arg, ret, val) ==
    [op |-> op, sender |-> sender, user |-> user, index |-> NoIndex,
     ret |-> ret, arg |-> arg, val |-> val]

Submit ==
    \E sender \in Address, user \in Address : \E report \in Reports[sender] :
        /\ TotalAttestations < MaxAttestations
        /\ LET r == submit(trusted_banks, attestations, sender, now, user,
                           report[1], report[2])
           IN  /\ attestations' = r.attestations
               /\ last' = ScoreCall("submit", sender, user, report, r.ret, 0)
        /\ UNCHANGED <<attestations_contract, ledger_vars, registry_vars>>

CalculateScore ==
    \E user \in Address, factor \in Factors :
        /\ LET r == calculate_score(attestations_contract, attestations,
                                    user, factor)
           IN  last' = ScoreCall("calculate_score", "none", user, factor,
                                 r.ret, r.val)
        /\ UNCHANGED <<score_vars, ledger_vars, registry_vars>>

SetAttestationsAddress ==
    \E sender \in {"a1", "a3"}, new_address \in LedgerAddress :
        /\ LET r == set_attestations_address(attestations_contract, sender,
                                             new_address)
           IN  /\ attestations_contract' = r.attestations_contract
               /\ last' = ScoreCall("set_attestations_address", sender, "none",
                                    new_address, r.ret, 0)
        /\ UNCHANGED <<attestations, ledger_vars, registry_vars>>

\* SpecScore: the owner lists and delists the two banks, the banks submit,
\* the owner and an outsider repoint the calculator, anyone asks for scores.
ScoreAddBank == AddBankBy({"a1"}, Address)
ScoreRemoveBank == RemoveBankBy({"a1"}, Address)
ScoreTick == Tick(LedgerTimes)
ScoreNext ==
    \/ Submit \/ CalculateScore \/ SetAttestationsAddress
    \/ ScoreAddBank \/ ScoreRemoveBank \/ ScoreTick

SpecScore == Init({"a1"}) /\ [][ScoreNext]_vars

\* ------------------------------------------------------------- the claims

\* A position of a user's list: the index fits usize and is below the length.
ValidIndex(ul, user, idx) == idx.hi = 0 /\ idx.lo < Len(ul[user])

\* Every record of every list, as <<user, position>> (positions from 1).
Records(ul) == {<<u, i>> \in Address \X (1..MaxPeriodLoans + 1) : i <= Len(ul[u])}

\* C1, first part: in every reachable state, a mark_loan_as_paid by a caller
\* other than the provider of the indexed record returns
\* NOT_ORIGINAL_PROVIDER and leaves every list as it is.
C1_NonProviderRejected ==
    \A sender \in Address, user \in Address, idx \in U256Index :
        LET r == mark_loan_as_paid(user_loans, sender, now, user, idx)
        IN  (/\ ValidIndex(user_loans, user, idx)
             /\ user_loans[user][idx.lo + 1].provider # sender)
            => (r.ret = "NOT_ORIGINAL_PROVIDER" /\ r.user_loans = user_loans)

\* C1, second part: a step that fails with NOT_ORIGINAL_PROVIDER changes no
\* list; a record arrives unpaid, and a step that switches a record to paid
\* is a successful mark_loan_as_paid whose caller is that record's provider.
C1_PaidOnlyByProviderStep ==
    /\ (last'.op = "mark_loan_as_paid" /\ last'.ret = "NOT_ORIGINAL_PROVIDER")
           => user_loans' = user_loans
    /\ \A rec \in Records(user_loans') :
           LET u == rec[1]
               i == rec[2]
           IN  user_loans'[u][i].is_paid =>
                   \/ (i <= Len(user_loans[u]) /\ user_loans[u][i].is_paid)
                   \/ /\ i <= Len(user_loans[u])
                      /\ last'.op = "mark_loan_as_paid"
                      /\ last'.ret = "Ok"
                      /\ last'.user = u
                      /\ last'.index = [hi |-> 0, lo |-> i - 1]
                      /\ last'.sender = user_loans[u][i].provider

\* C1: only the provider of a loan record can mark it paid; any other
\* caller gets NOT_ORIGINAL_PROVIDER and the ledger is unchanged.
C1_OnlyProviderMarksPaid ==
    [](C1_NonProviderRejected) /\ [][C1_PaidOnlyByProviderStep]_vars

\* C1 witness: a non-provider's call has just been rejected on a record that
\* its provider had marked paid before.
C1_Witness ==
    /\ last.op = "mark_loan_as_paid"
    /\ last.ret = "NOT_ORIGINAL_PROVIDER"
    /\ ValidIndex(user_loans, last.user, last.index)
    /\ user_loans[last.user][last.index.lo + 1].is_paid
    /\ user_loans[last.user][last.index.lo + 1].provider # last.sender

\* C2, state part: the provider's call on a record that is already paid
\* returns LOAN_ALREADY_PAID and leaves every list as it is.
C2_AlreadyPaidRejected ==
    \A sender \in Address, user \in Address, idx \in U256Index :
        LET r == mark_loan_as_paid(user_loans, sender, now, user, idx)
        IN  (/\ ValidIndex(user_loans, user, idx)
             /\ user_loans[user][idx.lo + 1].provider = sender
             /\ user_loans[user][idx.lo + 1].is_paid)
            => (r.ret = "LOAN_ALREADY_PAID" /\ r.user_loans = user_loans)

\* C2, step part: a paid record is still there, still paid and with the
\* same timestamp_paid after every step.
C2_PaidStaysPaidStep ==
    \A rec \in Records(user_loans) :
        LET u == rec[1]
            i == rec[2]
        IN  user_loans[u][i].is_paid =>
                /\ i <= Len(user_loans'[u])
                /\ user_loans'[u][i].is_paid
                /\ user_loans'[u][i].timestamp_paid = user_loans[u][i].timestamp_paid

\* C2: paid is terminal: a paid record keeps is_paid and timestamp_paid
\* for ever, and a second mark by the provider fails with LOAN_ALREADY_PAID.
C2_PaidIsTerminal ==
    [](C2_AlreadyPaidRejected) /\ [][C2_PaidStaysPaidStep]_vars

\* C2 witness: the provider's second mark has just failed at a time later
\* than the record's timestamp_paid (an overwrite would show).
C2_Witness ==
    /\ last.op = "mark_loan_as_paid"
    /\ last.ret = "LOAN_ALREADY_PAID"
    /\ ValidIndex(user_loans, last.user, last.index)
    /\ user_loans[last.user][last.index.lo + 1].is_paid
    /\ user_loans[last.user][last.index.lo + 1].timestamp_paid < now

\* C3: for every index that is no position of the user's list, values above
\* usize included, mark_loan_as_paid returns LOAN_INDEX_OUT_OF_BOUNDS and
\* leaves the lists unchanged.
C3_InvalidIndexIsOutOfBounds ==
    /\ (/\ last.op = "mark_loan_as_paid"
         /\ ~ValidIndex(user_loans, last.user, last.index))
            => last.ret = "LOAN_INDEX_OUT_OF_BOUNDS"
    /\ \A sender \in Address, user \in Address, idx \in U256Index :
           ~ValidIndex(user_loans, user, idx) =>
               mark_loan_as_paid(user_loans, sender, now, user, idx).user_loans
                   = user_loans

\* The start of the five-year window at the current time.
WindowStart == IF now >= 157680000 THEN now - 157680000 ELSE 0

\* The positions of the user's records issued inside the window, and the
\* paid ones among them.
InWindow(user) ==
    {i \in 1..Len(user_loans[user]) :
        user_loans[user][i].timestamp_issued >= WindowStart}
PaidInWindow(user) == {i \in InWindow(user) : user_loans[user][i].is_paid}

\* C4: at every reachable state and time get_compliance_percentage returns
\* a value in 0..100 for every user, the paid counter never exceeding the
\* total counter.
C4_PercentageInRange ==
    /\ \A user \in Address :
           LET c == count_loans(user_loans[user],
                                saturating_sub(now, FIVE_YEARS_IN_SECONDS),
                                Len(user_loans[user]))
               p == get_compliance_percentage(user_loans, now, user)
           IN  /\ c.paid_loans_in_period <= c.total_loans_in_period
               /\ p \in 0..100
    /\ last.op = "get_compliance_percentage" => last.ret \in 0..100

\* C4 witness: the call has returned a value strictly between 0 and 100
\* while the user also holds a paid loan older than the window.
C4_Witness ==
    /\ last.op = "get_compliance_percentage"
    /\ last.ret > 0
    /\ last.ret < 100
    /\ last.ret = get_compliance_percentage(user_loans, now, last.user)
    /\ \E i \in 1..Len(user_loans[last.user]) :
           /\ i \notin InWindow(last.user)
           /\ user_loans[last.user][i].is_paid

\* C5: get_compliance_percentage returns 100 when no record of the user is
\* inside the window, and otherwise the floor of paid * 100 / total over
\* the records inside the window.
C5_PercentageIsFloorOfRatio ==
    \A user \in Address :
        LET total == Cardinality(InWindow(user))
            paid == Cardinality(PaidInWindow(user))
            p == get_compliance_percentage(user_loans, now, user)
        IN  /\ total = 0 => p = 100
            /\ total > 0 => (p * total <= paid * 100 /\ paid * 100 < (p + 1) * total)

\* C5 witness: three loans inside the window, two of them paid, and the
\* call has returned 66.
C5_Witness ==
    /\ last.op = "get_compliance_percentage"
    /\ last.ret = 66
    /\ Cardinality(InWindow(last.user)) = 3
    /\ Cardinality(PaidInWindow(last.user)) = 2
    /\ get_compliance_percentage(user_loans, now, last.user) = 66

\* C6: a record is counted exactly when timestamp_issued >= window start,
\* the window start being now - 157680000 saturating at 0: issued exactly
\* five years ago it is counted, a second earlier it is not, and before
\* five years have passed every record is counted.
C6_WindowBoundary ==
    \A user \in Address :
        LET list == user_loans[user]
            five_years_ago == saturating_sub(now, FIVE_YEARS_IN_SECONDS)
            c == count_loans(list, five_years_ago, Len(list))
        IN  /\ c.total_loans_in_period = Cardinality(InWindow(user))
            /\ c.paid_loans_in_period = Cardinality(PaidInWindow(user))
            /\ \A i \in 1..Len(list) :
                   LET counted ==
                           count_loans(<<list[i]>>, five_years_ago, 1)
                               .total_loans_in_period = 1
                   IN  /\ list[i].timestamp_issued + 157680000 = now => counted
                       /\ list[i].timestamp_issued + 157680000 + 1 = now => ~counted
                       /\ now < 157680000 => counted

\* C6 witness: the call has returned for a user with one loan issued exactly
\* five years before now and one issued a second earlier.
C6_Witness ==
    /\ last.op = "get_compliance_percentage"
    /\ now >= 157680000
    /\ \E i, j \in 1..Len(user_loans[last.user]) :
           /\ user_loans[last.user][i].timestamp_issued + 157680000 = now
           /\ user_loans[last.user][j].timestamp_issued + 157680000 + 1 = now
    /\ Cardinality(InWindow(last.user)) = 1
    /\ last.ret = get_compliance_percentage(user_loans, now, last.user)

\* C10, state part: for every caller, user and amount add_loan_record
\* returns Ok and yields the user's list with one record added at the end,
\* carrying the caller, the current time, the amount, unpaid, and every
\* other list as it was.
C10_AddAppends ==
    \A sender \in Address, user \in Address, amount \in Amounts :
        LET r == add_loan_record(user_loans, sender, now, user, amount)
            old == user_loans[user]
            new == r.user_loans[user]
        IN  /\ r.ret = "Ok"
            /\ Len(new) = Len(old) + 1
            /\ SubSeq(new, 1, Len(old)) = old
            /\ new[Len(new)].provider = sender
            /\ new[Len(new)].timestamp_issued = now
            /\ new[Len(new)].loan_amount = amount
            /\ new[Len(new)].is_paid = FALSE
            /\ new[Len(new)].timestamp_paid = 0
            /\ \A other \in Address \ {user} : r.user_loans[other] = user_loans[other]

\* C10, step part: every add_loan_record step (a step that is no tick of
\* the clock and leaves an add_loan_record as the last call) succeeds,
\* lengthens the user's list by one unpaid record of the caller, with an
\* amount the caller lends, at the end, and leaves the lists of the other
\* users alone.
C10_AddStep ==
    (last'.op = "add_loan_record" /\ now' = now) =>
        LET old == user_loans[last'.user]
            new == user_loans'[last'.user]
        IN  /\ last'.ret = "Ok"
            /\ Len(new) = Len(old) + 1
            /\ SubSeq(new, 1, Len(old)) = old
            /\ new[Len(new)].provider = last'.sender
            /\ new[Len(new)].timestamp_issued = now
            /\ new[Len(new)].loan_amount \in LedgerLends[last'.sender]
            /\ new[Len(new)].is_paid = FALSE
            /\ new[Len(new)].timestamp_paid = 0
            /\ \A other \in Address \ {last'.user} :
                   user_loans'[other] = user_loans[other]

\* C10: add_loan_record always succeeds and appends exactly one record
\* (provider = caller, timestamp_issued = now, the amount, unpaid,
\* timestamp_paid = 0) at the end of the user's list, changing no other list.
C10_AddLoanRecordAppendsOne ==
    [](C10_AddAppends) /\ [][C10_AddStep]_vars

\* C10 witness: a record has just been appended behind a record of another
\* provider.
C10_Witness ==
    /\ last.op = "add_loan_record"
    /\ Len(user_loans[last.user]) = 2
    /\ user_loans[last.user][2].provider = last.sender
    /\ user_loans[last.user][1].provider # last.sender

\* The methods that write the trust map.
SetTrustOps == {"add_bank", "remove_bank"}

\* C7, state part: add_bank and remove_bank return Ok exactly for the
\* owner; for any other caller they return UNAUTHORIZED with the owner and
\* the trust map as they were.
C7_SetTrustGuarded ==
    \A sender \in Accounts, bank \in Accounts :
        LET a == add_bank(owner, trusted_banks, sender, bank)
            r == remove_bank(owner, trusted_banks, sender, bank)
        IN  /\ (a.ret = "Ok") = (sender = owner)
            /\ (r.ret = "Ok") = (sender = owner)
            /\ sender # owner =>
                   /\ a.ret = "UNAUTHORIZED" /\ r.ret = "UNAUTHORIZED"
                   /\ a.owner = owner /\ a.trusted_banks = trusted_banks
                   /\ r.owner = owner /\ r.trusted_banks = trusted_banks

\* C7, step part: an add_bank or remove_bank step by another caller than
\* the owner fails and changes neither the owner nor the trust map; one by
\* the owner succeeds and sets the entry of its target.
C7_SetTrustStep ==
    last'.op \in SetTrustOps =>
        /\ last'.sender # owner =>
               /\ last'.ret = "UNAUTHORIZED"
               /\ owner' = owner
               /\ trusted_banks' = trusted_banks
        /\ last'.sender = owner =>
               /\ last'.ret = "Ok"
               /\ trusted_banks'[last'.user] = (last'.op = "add_bank")

\* C7: add_bank and remove_bank succeed only for the current owner; any
\* other caller gets UNAUTHORIZED and neither owner nor trust map changes.
C7_OnlyOwnerSetsTrust ==
    [](C7_SetTrustGuarded) /\ [][C7_SetTrustStep]_vars

\* C7 witness: a call by a non-owner has just failed while a bank is listed.
C7_Witness ==
    /\ last.op \in SetTrustOps
    /\ last.ret = "UNAUTHORIZED"
    /\ last.sender # owner
    /\ \E b \in Accounts : trusted_banks[b]

\* C8: is_trusted_bank never fails and returns, for every address, the
\* value of the last successful add_bank / remove_bank on it, false when
\* there was none; repeating a successful call gives the state of one call,
\* and a call on X leaves the answer for every other address.
C8_IsTrustedIsLastSet ==
    /\ \A x \in Accounts :
           is_trusted_bank(trusted_banks, x)
               = [ret |-> "Ok", val |-> (last_set[x] = "true")]
    /\ \A x \in Accounts :
           LET a1 == add_bank(owner, trusted_banks, owner, x)
               a2 == add_bank(a1.owner, a1.trusted_banks, owner, x)
               r1 == remove_bank(owner, trusted_banks, owner, x)
               r2 == remove_bank(r1.owner, r1.trusted_banks, owner, x)
           IN  /\ a2 = a1
               /\ r2 = r1
               /\ is_trusted_bank(a1.trusted_banks, x).val = TRUE
               /\ is_trusted_bank(r1.trusted_banks, x).val = FALSE
               /\ \A y \in Accounts \ {x} :
                      /\ is_trusted_bank(a1.trusted_banks, y)
                             = is_trusted_bank(trusted_banks, y)
                      /\ is_trusted_bank(r1.trusted_banks, y)
                             = is_trusted_bank(trusted_banks, y)
    /\ last.op = "is_trusted_bank" => last.ret = (last_set[last.user] = "true")

\* C8 witness: is_trusted_bank has answered false for a bank that was added
\* and then removed, while another bank is listed and a third never was.
C8_Witness ==
    /\ last.op = "is_trusted_bank"
    /\ last.ret = FALSE
    /\ last_set[last.user] = "false"
    /\ \E y, z \in Accounts : last_set[y] = "true" /\ last_set[z] = "never"

\* C9 as stated: once an owner has handed the ownership to another address,
\* every later add_bank, remove_bank or transfer_ownership by that previous
\* owner fails.
C9_FormerOwnerNeverSucceeds ==
    [][(/\ last'.op \in SetTrustOps \cup {"transfer_ownership"}
        /\ last'.sender \in former_owners)
           => last'.ret = "UNAUTHORIZED"]_vars

\* C9 amended, state part: exactly the current owner can write: each of
\* add_bank, remove_bank and transfer_ownership returns Ok for the owner and
\* UNAUTHORIZED, with nothing changed, for every other caller.
C9_ExactlyOwnerWrites ==
    \A sender \in Accounts, x \in Accounts :
        LET t == transfer_ownership(owner, trusted_banks, sender, x)
            a == add_bank(owner, trusted_banks, sender, x)
            r == remove_bank(owner, trusted_banks, sender, x)
        IN  /\ (t.ret = "Ok") = (sender = owner)
            /\ (a.ret = "Ok") = (sender = owner)
            /\ (r.ret = "Ok") = (sender = owner)
            /\ sender # owner =>
                   /\ t.ret = "UNAUTHORIZED"
                   /\ t.owner = owner
                   /\ t.trusted_banks = trusted_banks

\* C9 amended, step part: a transfer_ownership step by another caller than
\* the owner fails and changes nothing; one by the owner makes the new
\* owner the owner and leaves the trust map; when the new owner differs
\* from the caller, in the state reached the caller's calls fail with
\* UNAUTHORIZED and the new owner's succeed.
C9_TransferStep ==
    last'.op = "transfer_ownership" =>
        /\ last'.sender # owner =>
               /\ last'.ret = "UNAUTHORIZED"
               /\ owner' = owner
               /\ trusted_banks' = trusted_banks
        /\ last'.sender = owner =>
               /\ last'.ret = "Ok"
               /\ owner' = last'.user
               /\ trusted_banks' = trusted_banks
               /\ last'.user # last'.sender =>
                      \A x \in Accounts :
                          /\ add_bank(owner', trusted_banks', last'.sender, x).ret
                                 = "UNAUTHORIZED"
                          /\ remove_bank(owner', trusted_banks', last'.sender, x).ret
                                 = "UNAUTHORIZED"
                          /\ transfer_ownership(owner', trusted_banks', last'.sender, x).ret
                                 = "UNAUTHORIZED"
                          /\ add_bank(owner', trusted_banks', last'.user, x).ret = "Ok"
                          /\ remove_bank(owner', trusted_banks', last'.user, x).ret = "Ok"
                          /\ transfer_ownership(owner', trusted_banks', last'.user, x).ret
                                 = "Ok"

\* C9 amended: transfer_ownership succeeds only for the current owner and
\* fails without a change otherwise; a transfer to another address leaves
\* the trust map, and from then on, for as long as the ownership is not
\* transferred again, the previous owner's calls fail with UNAUTHORIZED and
\* the new owner's succeed: at every moment exactly the owner can write.
C9_OwnershipTransfer ==
    [](C9_ExactlyOwnerWrites) /\ [][C9_TransferStep]_vars

\* C9 witness: the ownership has just gone to another address while a bank
\* is listed.
C9_Witness ==
    /\ last.op = "transfer_ownership"
    /\ last.ret = "Ok"
    /\ last.user # last.sender
    /\ owner = last.user
    /\ last.sender \in former_owners
    /\ \E b \in Accounts : trusted_banks[b]

\* C11, first part: no list gets shorter, and the record at a position keeps
\* its provider, timestamp_issued and loan_amount.
C11_AppendOnlyStep ==
    /\ \A u \in Address : Len(user_loans'[u]) >= Len(user_loans[u])
    /\ \A rec \in Records(user_loans) :
           LET u == rec[1]
               i == rec[2]
           IN  /\ i <= Len(user_loans'[u])
               /\ user_loans'[u][i].provider = user_loans[u][i].provider
               /\ user_loans'[u][i].timestamp_issued = user_loans[u][i].timestamp_issued
               /\ user_loans'[u][i].loan_amount = user_loans[u][i].loan_amount

\* C11, second part: a successful mark_loan_as_paid adds no record and
\* leaves every record but the indexed one of the user as it is.
C11_MarkTouchesOneStep ==
    (last'.op = "mark_loan_as_paid" /\ last'.ret = "Ok") =>
        /\ \A u \in Address : Len(user_loans'[u]) = Len(user_loans[u])
        /\ \A rec \in Records(user_loans) :
               rec # <<last'.user, last'.index.lo + 1>>
                   => user_loans'[rec[1]][rec[2]] = user_loans[rec[1]][rec[2]]

\* C11: the lists are append-only in position: no list shrinks, a record
\* keeps provider, timestamp_issued and loan_amount at its index for ever,
\* and a successful mark_loan_as_paid changes only is_paid and
\* timestamp_paid of the one indexed record.
C11_ListsAppendOnly ==
    [][C11_AppendOnlyStep /\ C11_MarkTouchesOneStep]_vars

\* C11 witness: the second of two records of a user, issued earlier, has
\* just been marked paid and the first is still unpaid.
C11_Witness ==
    /\ last.op = "mark_loan_as_paid"
    /\ last.ret = "Ok"
    /\ last.index = [hi |-> 0, lo |-> 1]
    /\ Len(user_loans[last.user]) = 2
    /\ user_loans[last.user][2].is_paid
    /\ user_loans[last.user][2].timestamp_issued < now
    /\ ~user_loans[last.user][1].is_paid

\* C18, state part: an unpaid record has timestamp_paid = 0; a paid one has
\* timestamp_issued <= timestamp_paid <= now.
C18_PaidAtConsistent ==
    \A rec \in Records(user_loans) :
        LET loan == user_loans[rec[1]][rec[2]]
        IN  /\ ~loan.is_paid => loan.timestamp_paid = 0
            /\ loan.is_paid =>
                   /\ loan.timestamp_paid >= loan.timestamp_issued
                   /\ loan.timestamp_paid <= now

\* C18, step part: the step that switches a record to paid is a successful
\* mark_loan_as_paid and writes the current time to timestamp_paid.
C18_PaidAtIsMarkTimeStep ==
    \A rec \in Records(user_loans) :
        LET u == rec[1]
            i == rec[2]
        IN  (~user_loans[u][i].is_paid /\ user_loans'[u][i].is_paid) =>
                /\ last'.op = "mark_loan_as_paid"
                /\ last'.ret = "Ok"
                /\ user_loans'[u][i].timestamp_paid = now

\* C18: under the advancing clock every unpaid record has timestamp_paid = 0
\* and every paid record has the time of its one successful
\* mark_loan_as_paid, which is not before timestamp_issued.
C18_PaidAtInvariant ==
    [](C18_PaidAtConsistent) /\ [][C18_PaidAtIsMarkTimeStep]_vars

\* C18 witness: at a time after 0 a user holds a record paid later than it
\* was issued and an unpaid record issued after 0.
C18_Witness ==
    \E u \in Address :
        /\ Len(user_loans[u]) = 2
        /\ \E i, j \in 1..2 :
               /\ user_loans[u][i].is_paid
               /\ user_loans[u][i].timestamp_paid > user_loans[u][i].timestamp_issued
               /\ ~user_loans[u][j].is_paid
               /\ user_loans[u][j].timestamp_issued > 0

\* C19: mark_loan_as_paid checks the index, then the provider, then the
\* paid flag: an index that is no position yields LOAN_INDEX_OUT_OF_BOUNDS
\* whoever calls, a non-provider gets NOT_ORIGINAL_PROVIDER also on a paid
\* record, and LOAN_ALREADY_PAID goes only to the record's provider.
C19_CheckOrder ==
    last.op = "mark_loan_as_paid" =>
        LET valid == ValidIndex(user_loans, last.user, last.index)
            loan == user_loans[last.user][last.index.lo + 1]
        IN  /\ ~valid => last.ret = "LOAN_INDEX_OUT_OF_BOUNDS"
            /\ (valid /\ loan.provider # last.sender)
                   => last.ret = "NOT_ORIGINAL_PROVIDER"
            /\ last.ret = "LOAN_ALREADY_PAID" =>
                   /\ valid
                   /\ loan.provider = last.sender
                   /\ loan.is_paid

\* The percentage the contract returns for the user before and after a step.
PercentageBefore(user) == get_compliance_percentage(user_loans, now, user)
PercentageAfter(user) == get_compliance_percentage(user_loans', now', user)

\* C20, payment: a successful mark_loan_as_paid at a fixed time does not
\* lower the percentage of its user and leaves every other user's alone.
C20_MarkStep ==
    (now' = now /\ last'.op = "mark_loan_as_paid" /\ last'.ret = "Ok") =>
        /\ PercentageAfter(last'.user) >= PercentageBefore(last'.user)
        /\ \A u \in Address \ {last'.user} :
               PercentageAfter(u) = PercentageBefore(u)

\* C20, issue: a successful add_loan_record at a fixed time does not raise
\* the percentage of its user, takes it from 100 to 0 when the user had no
\* record in the window, and leaves every other user's alone.
C20_AddStep ==
    (now' = now /\ last'.op = "add_loan_record" /\ last'.ret = "Ok") =>
        /\ PercentageAfter(last'.user) <= PercentageBefore(last'.user)
        /\ InWindow(last'.user) = {} =>
               /\ PercentageBefore(last'.user) = 100
               /\ PercentageAfter(last'.user) = 0
        /\ \A u \in Address \ {last'.user} :
               PercentageAfter(u) = PercentageBefore(u)

\* C20: at a fixed time a successful mark_loan_as_paid never decreases and
\* a successful add_loan_record never increases get_compliance_percentage
\* of the user concerned (the first record in the window takes it from 100
\* to 0), and neither changes the percentage of any other user.
C20_PercentageMonotone == [][C20_MarkStep /\ C20_AddStep]_vars

\* C20 witness: a payment has just brought a user with two records in the
\* window to 50 while the other user stands at 0 with a record of their own.
C20_Witness ==
    /\ last.op = "mark_loan_as_paid"
    /\ last.ret = "Ok"
    /\ Cardinality(InWindow(last.user)) = 2
    /\ get_compliance_percentage(user_loans, now, last.user) = 50
    /\ \E u \in Address \ {last.user} :
           /\ InWindow(u) # {}
           /\ get_compliance_percentage(user_loans, now, u) = 0

\* The list calculate_score works on: what the configured contract returns.
Consulted(user) ==
    call_get_attestations(attestations_contract, attestations, user)

\* The rule table over the unbounded integers.
RawStep(raw, a) ==
    IF a.data_type \in {"INGRESO_ALTO", "TASA_AHORRO_ALTA"} THEN raw + a.value
    ELSE IF a.data_type = "NIVEL_DEUDA"
         THEN IF raw >= a.value THEN raw - a.value ELSE 0
    ELSE raw

\* The raw score of the first n attestations over the unbounded integers.
RECURSIVE Raw(_, _)
Raw(atts, n) == IF n = 0 THEN 0 ELSE RawStep(Raw(atts, n - 1), atts[n])

\* C12, result: a calculate_score whose call to the ledger succeeded
\* returns 0 without error for ppa_factor = 0 and floor(raw * 100 /
\* ppa_factor) otherwise.
C12_ReturnsFloorOfRatio ==
    (last.op = "calculate_score" /\ Consulted(last.user).ret = "Ok") =>
        LET atts == Consulted(last.user).val
        IN  /\ last.ret = "Ok"
            /\ last.arg = 0 => last.val = 0
            /\ last.arg > 0 =>
                   last.val = (Raw(atts, Len(atts)) * 100) \div last.arg

\* C12, state: calculate_score writes no storage.
C12_ReadOnlyStep ==
    (last'.op = "calculate_score" /\ now' = now) =>
        UNCHANGED <<score_vars, user_loans, registry_vars>>

\* C12: calculate_score returns 0 without error when ppa_factor = 0 whatever
\* the attestations are, returns floor(raw * 100 / ppa_factor), multiplied
\* first, when ppa_factor > 0 (raw 100: 100 for factor 100, 166 for factor
\* 60), and modifies no state.
C12_CalculateScore ==
    [](C12_ReturnsFloorOfRatio) /\ [][C12_ReadOnlyStep]_vars

\* C13: score_bruto after every prefix of the list is the left-to-right
\* fold from 0 in which INGRESO_ALTO and TASA_AHORRO_ALTA add the value,
\* NIVEL_DEUDA subtracts it down to 0 at least, and any other data_type
\* changes nothing; it is never negative.
C13_RawIsFold ==
    \A user \in Address :
        Consulted(user).ret = "Ok" =>
            LET atts == Consulted(user).val
            IN  \A n \in 0..Len(atts) :
                    /\ score_bruto(atts, n) = Raw(atts, n)
                    /\ score_bruto(atts, n) >= 0

\* No addition of the loop and not the product with precision_factor goes
\* beyond U256Max for the list.
NoOverflow(atts) ==
    /\ \A n \in 1..Len(atts) :
           atts[n].data_type \in {"INGRESO_ALTO", "TASA_AHORRO_ALTA"}
               => score_bruto(atts, n - 1) + atts[n].value <= U256Max
    /\ score_bruto(atts, Len(atts)) * precision_factor <= U256Max

\* C14: for every list of attestations and every ppa_factor > 0 neither an
\* addition to score_bruto nor score_bruto * 100 exceeds the largest U256,
\* and the result is floor(raw * 100 / ppa_factor) over the unbounded
\* integers.
C14_NeverOverflows ==
    \A user \in Address :
        Consulted(user).ret = "Ok" =>
            LET atts == Consulted(user).val
            IN  /\ NoOverflow(atts)
                /\ \A factor \in Factors \ {0} :
                       calculate_score(attestations_contract, attestations,
                                       user, factor).val
                           = (Raw(atts, Len(atts)) * 100) \div factor

\* C15, refusal: a submit by a caller the registry does not list as trusted
\* returns NOT_TRUSTED and leaves every list as it was.
C15_UntrustedStep ==
    (last'.op = "submit" /\ now' = now /\ ~trusted_banks[last'.sender]) =>
        /\ last'.ret = "NOT_TRUSTED"
        /\ \A u \in Address :
               get_attestations(attestations', u) = get_attestations(attestations, u)

\* C15, append: a submit by a trusted caller puts one attestation with the
\* caller, the current time and the arguments at the end of the user's
\* list, the earlier ones staying in their order.
C15_TrustedStep ==
    (last'.op = "submit" /\ now' = now /\ trusted_banks[last'.sender]) =>
        /\ last'.ret = "Ok"
        /\ get_attestations(attestations', last'.user).val =
               Append(get_attestations(attestations, last'.user).val,
                      [bank_address |-> last'.sender,
                       timestamp    |-> now,
                       data_type    |-> last'.arg[1],
                       value        |-> last'.arg[2]])
        /\ \A u \in Address \ {last'.user} : attestations'[u] = attestations[u]

ScoreOf(user, factor) ==
    calculate_score(attestations_contract, attestations, user, factor)
ListOf(user) == get_attestations(attestations, user)

\* C16, submission: the reporter of every attestation that enters a list is
\* trusted in the state it is submitted in, and the stored ones stay.
C16_TrustedAtSubmissionStep ==
    \A u \in Address :
        /\ Len(attestations'[u]) >= Len(attestations[u])
        /\ SubSeq(attestations'[u], 1, Len(attestations[u])) = attestations[u]
        /\ \A i \in (Len(attestations[u]) + 1)..Len(attestations'[u]) :
               trusted_banks[attestations'[u][i].bank_address]

\* C16, revocation: a remove_bank leaves every list and every score as they
\* were immediately before it.
C16_RevocationStep ==
    (last'.op = "remove_bank" /\ now' = now) =>
        \A u \in Address :
            /\ ListOf(u)' = ListOf(u)
            /\ \A factor \in Factors : ScoreOf(u, factor)' = ScoreOf(u, factor)

ScoreOfList(atts, factor) ==
    IF factor = 0 THEN 0
    ELSE wrapping_mul(score_bruto(atts, Len(atts)), precision_factor) \div factor

\* C17, setter: set_attestations_address succeeds for every caller and
\* makes its argument the address consulted.
C17_SetterStep ==
    (last'.op = "set_attestations_address" /\ now' = now) =>
        /\ last'.ret = "Ok"
        /\ attestations_contract' = last'.arg
        /\ attestations' = attestations

\* C17, reader: calculate_score returns the score of the list at the
\* configured address, and the error of the call when that call fails.
C17_ReadsConfiguredAddress ==
    \A u \in Address, factor \in Factors :
        /\ attestations_contract = "ledger" =>
               ScoreOf(u, factor) =
                   [ret |-> "Ok", val |-> ScoreOfList(attestations[u], factor)]
        /\ attestations_contract = "other" =>
               ScoreOf(u, factor) =
                   [ret |-> "Ok", val |-> ScoreOfList(OtherAttestations, factor)]
        /\ attestations_contract = "none" => ScoreOf(u, factor).ret = "CALL_FAILED"
        /\ (last.op = "calculate_score" /\ last.user = u /\ last.arg = factor)
               => (last.ret = ScoreOf(u, factor).ret /\ last.val = ScoreOf(u, factor).val)

\* C17: set_attestations_address succeeds for every caller, with no check
\* of ownership, and replaces the address consulted; from then on
\* calculate_score reads the new address only, so anyone can change the
\* score of any user, and a failing call to the configured address comes
\* back from calculate_score as an error, not as a score.
C17_AnyoneRepointsTheCalculator ==
    [](C17_ReadsConfiguredAddress) /\ [][C17_SetterStep]_vars

\* C17 witness: an address that owns nothing has just pointed the
\* calculator to the other contract, and the score of a user with stored
\* attestations is no longer the one the ledger gives.
C17_Witness ==
    /\ last.op = "set_attestations_address"
    /\ last.sender = "a3"
    /\ last.ret = "Ok"
    /\ attestations_contract = "other"
    /\ \E u \in Address :
           /\ attestations[u] # <<>>
           /\ ScoreOf(u, 100).val #
                  calculate_score("ledger", attestations, u, 100).val

====
